---------------------------- MODULE Spec2Model ----------------------------
(***************************************************************************)
(* The notebook "Theory - Introduction to Brownian Motion simulation" as a *)
(* state machine.  The state is the namespace of the Python 2 kernel that  *)
(* runs the notebook; there is one action per code cell In[1] .. In[7].    *)
(* A cell's literals are the action's inputs (editing a literal and        *)
(* running the cell again), cells may be run in any order and repeatedly.  *)
(*                                                                         *)
(* Numbers.  A Python float is an IEEE-754 binary64 number and is modelled *)
(* as one: every arithmetic operation, np.sqrt, the reading of a decimal   *)
(* literal and the '%.2f' formatting round as the code's do (to nearest,   *)
(* ties to even), with signed zeros, infinities and nan.  S_spot,          *)
(* tau_spot, d, eta, kB, time and space are floats; N and T are ints in    *)
(* the notebook, small enough to be the same numbers as floats.            *)
(***************************************************************************)
EXTENDS Integers, Sequences, FiniteSets

VARIABLES ns, prompt, last, ordered

vars == <<ns, prompt, last, ordered>>

-----------------------------------------------------------------------------
(* Natural numbers of any size, for the 53-bit mantissas of the floats and   *)
(* their 106-bit products: a sequence of limbs below Base, the least         *)
(* significant first, without leading zero limbs; zero is << >>.             *)

LimbBits == 15

Base == 2^LimbBits

Abs(n) == IF n < 0 THEN -n ELSE n

Max(a, b) == IF a < b THEN b ELSE a

Limb(a, i) == IF i <= Len(a) THEN a[i] ELSE 0

RECURSIVE Trim(_)
Trim(a) ==
    IF Len(a) > 0 /\ a[Len(a)] = 0 THEN Trim(SubSeq(a, 1, Len(a) - 1)) ELSE a

RECURSIVE Big(_)
Big(n) == IF n = 0 THEN << >> ELSE <<n % Base>> \o Big(n \div Base)

RECURSIVE IntBitLen(_)
IntBitLen(n) == IF n = 0 THEN 0 ELSE 1 + IntBitLen(n \div 2)

BitLen(a) ==
    IF a = << >> THEN 0 ELSE LimbBits * (Len(a) - 1) + IntBitLen(a[Len(a)])

RECURSIVE AddFrom(_, _, _, _)
AddFrom(a, b, i, c) ==
    IF i > Len(a) /\ i > Len(b) THEN IF c = 0 THEN << >> ELSE <<c>>
    ELSE LET s == Limb(a, i) + Limb(b, i) + c
         IN  <<s % Base>> \o AddFrom(a, b, i + 1, s \div Base)

BigAdd(a, b) == AddFrom(a, b, 1, 0)

RECURSIVE SubFrom(_, _, _, _)
SubFrom(a, b, i, c) ==
    IF i > Len(a) THEN << >>
    ELSE LET s == a[i] - Limb(b, i) - c
         IN  IF s < 0 THEN <<s + Base>> \o SubFrom(a, b, i + 1, 1)
             ELSE <<s>> \o SubFrom(a, b, i + 1, 0)

(* a - b for a >= b.                                                         *)
BigSub(a, b) == Trim(SubFrom(a, b, 1, 0))

RECURSIVE CmpFrom(_, _, _)
CmpFrom(a, b, i) ==
    IF i = 0 THEN 0
    ELSE IF a[i] # b[i] THEN (IF a[i] < b[i] THEN -1 ELSE 1)
    ELSE CmpFrom(a, b, i - 1)

(* -1, 0 or 1 as a is less than, equal to or greater than b.                 *)
BigCmp(a, b) ==
    IF Len(a) # Len(b) THEN (IF Len(a) < Len(b) THEN -1 ELSE 1)
    ELSE CmpFrom(a, b, Len(a))

RECURSIVE MulSmallFrom(_, _, _, _)
MulSmallFrom(a, n, i, c) ==
    IF i > Len(a) THEN IF c = 0 THEN << >> ELSE <<c>>
    ELSE LET s == a[i] * n + c
         IN  <<s % Base>> \o MulSmallFrom(a, n, i + 1, s \div Base)

(* a * n for 0 <= n <= Base.                                                 *)
MulSmall(a, n) == IF n = 0 THEN << >> ELSE MulSmallFrom(a, n, 1, 0)

ShiftLimbs(a, k) == IF a = << >> THEN a ELSE [i \in 1..k |-> 0] \o a

RECURSIVE MulFrom(_, _, _)
MulFrom(a, b, i) ==
    IF i > Len(a) THEN << >>
    ELSE BigAdd(MulSmall(b, a[i]), ShiftLimbs(MulFrom(a, b, i + 1), 1))

BigMul(a, b) == MulFrom(a, b, 1)

(* <<q, r>>, the quotient and remainder of the limbs a[i], a[i+1], .. by n.  *)
RECURSIVE DivSmallFrom(_, _, _)
DivSmallFrom(a, n, i) ==
    IF i > Len(a) THEN << << >>, 0 >>
    ELSE LET p == DivSmallFrom(a, n, i + 1)
             s == p[2] * Base + a[i]
         IN  << <<s \div n>> \o p[1], s % n >>

(* <<a \div n, a % n>> for 0 < n <= Base.                                    *)
DivSmall(a, n) ==
    LET qr == DivSmallFrom(a, n, 1) IN <<Trim(qr[1]), qr[2]>>

(* a * 2^k and a \div 2^k.                                                   *)
Shl(a, k) == ShiftLimbs(MulSmall(a, 2^(k % LimbBits)), k \div LimbBits)

Shr(a, k) ==
    IF k \div LimbBits >= Len(a) THEN << >>
    ELSE DivSmall(SubSeq(a, k \div LimbBits + 1, Len(a)), 2^(k % LimbBits))[1]

(* Bit i of a (bit 0 is the least significant), and whether the bits below   *)
(* bit k are all zero.                                                       *)
Bit(a, i) == (Limb(a, i \div LimbBits + 1) \div 2^(i % LimbBits)) % 2

LowZero(a, k) ==
    /\ \A i \in 1..(k \div LimbBits) : Limb(a, i) = 0
    /\ Limb(a, k \div LimbBits + 1) % 2^(k % LimbBits) = 0

RECURSIVE Digit(_, _, _)
Digit(r, d, q) == IF BigCmp(MulSmall(d, q), r) > 0 THEN Digit(r, d, q - 1) ELSE q

(* r \div d for r < d * Base: the estimate from the leading limbs, lowered   *)
(* until it fits.                                                            *)
QuoDigit(r, d) ==
    IF BigCmp(r, d) < 0 THEN 0
    ELSE LET est == (Limb(r, Len(d) + 1) * Base + Limb(r, Len(d))) \div d[Len(d)]
         IN  Digit(r, d, IF est >= Base THEN Base - 1 ELSE est)

(* Long division from the leading limb a[i] down: q and r are the quotient  *)
(* and the remainder of the limbs above a[i].                                *)
RECURSIVE DivFrom(_, _, _, _, _)
DivFrom(a, d, i, q, r) ==
    IF i = 0 THEN <<q, r>>
    ELSE LET r1 == Trim(<<a[i]>> \o r)
             g == QuoDigit(r1, d)
         IN  IF g = 0 THEN DivFrom(a, d, i - 1, <<0>> \o q, r1)
             ELSE DivFrom(a, d, i - 1, <<g>> \o q, BigSub(r1, MulSmall(d, g)))

(* <<a \div d, r>> with r = << >> exactly when d divides a, for d # 0: long  *)
(* division by limbs, both scaled to make the leading limb of d large.       *)
BigDivMod(a, d) ==
    LET s == LimbBits - IntBitLen(d[Len(d)])
        qr == DivFrom(Shl(a, s), Shl(d, s), Len(Shl(a, s)), << >>, << >>)
    IN  <<Trim(qr[1]), qr[2]>>

RECURSIVE Small(_)
Small(a) == IF a = << >> THEN 0 ELSE a[1] + Base * Small(Tail(a))

RECURSIVE ISqrtIn(_, _, _)
ISqrtIn(m, lo, hi) ==
    IF lo >= hi THEN lo
    ELSE IF (lo + hi + 1) \div 2 <= m \div ((lo + hi + 1) \div 2)
    THEN ISqrtIn(m, (lo + hi + 1) \div 2, hi)
    ELSE ISqrtIn(m, lo, (lo + hi + 1) \div 2 - 1)

(* A number not below the square root of n # 0, from its leading 30 bits.    *)
SqrtAbove(n) ==
    LET t == 2 * Max(0, (BitLen(n) - 29) \div 2)
    IN  Shl(Big(ISqrtIn(Small(Shr(n, t)), 0, Base) + 1), t \div 2)

RECURSIVE Newton(_, _)
Newton(n, x) ==
    LET y == Shr(BigAdd(x, BigDivMod(n, x)[1]), 1)
    IN  IF BigCmp(y, x) >= 0 THEN x ELSE Newton(n, y)

(* The integer part of the square root of n.                                 *)
BigSqrt(n) == IF n = << >> THEN << >> ELSE Newton(n, SqrtAbove(n))

RECURSIVE BigPow10(_)
BigPow10(k) ==
    IF k = 0 THEN <<1>>
    ELSE IF k % 2 = 1 THEN MulSmall(BigPow10(k - 1), 10)
    ELSE BigMul(BigPow10(k \div 2), BigPow10(k \div 2))

-----------------------------------------------------------------------------
(* Python floats: IEEE-754 binary64, round to nearest, ties to even.  A      *)
(* finite float is [s, m, e], the number (-1)^s * m * 2^e with m of exactly  *)
(* Precision bits (normal) or of fewer bits and e = EMin (subnormal); zero   *)
(* is m = << >>, e = 0, with its sign.  Infinities and nan are records of    *)
(* their own.                                                                *)

Precision == 53

EMin == -1074

EMax == 971

Zero(s) == [s |-> s, m |-> << >>, e |-> 0]

Inf(s) == [s |-> s, inf |-> TRUE]

NaN == [nan |-> TRUE]

IsNum(v) == "m" \in DOMAIN v

IsInf(v) == "inf" \in DOMAIN v

IsNaN(v) == "nan" \in DOMAIN v

IsFloat(v) == IsNum(v) \/ IsInf(v) \/ IsNaN(v)

IsZero(v) == IsNum(v) /\ v.m = << >>

Finite(s, m, e) ==
    IF m = << >> THEN Zero(s)
    ELSE IF e > EMax THEN Inf(s)
    ELSE [s |-> s, m |-> m, e |-> e]

(* The float nearest to (-1)^s * n * 2^e, ties to the even mantissa.         *)
Round(s, n, e) ==
    IF n = << >> THEN Zero(s)
    ELSE LET lsb == Max(e + BitLen(n) - Precision, EMin)
             k == lsb - e
             q == Shr(n, k)
             up == Bit(n, k - 1) = 1 /\ (~LowZero(n, k - 1) \/ Bit(n, k) = 1)
             q1 == IF up THEN BigAdd(q, <<1>>) ELSE q
         IN  IF k <= 0 THEN Finite(s, Shl(n, -k), lsb)
             ELSE IF BitLen(q1) > Precision THEN Finite(s, Shr(q1, 1), lsb + 1)
             ELSE Finite(s, q1, lsb)

(* q with its last bit set: q stands for a number strictly between q and     *)
(* q + 1, which rounds as q does with a one among the bits dropped.          *)
Sticky(q) == IF q[1] % 2 = 0 THEN [q EXCEPT ![1] = @ + 1] ELSE q

(* The float nearest to (-1)^s * a / d, for a, d # 0.                        *)
RoundRatio(s, a, d, e) ==
    LET k == Max(0, Precision + 3 + BitLen(d) - BitLen(a))
        qr == BigDivMod(Shl(a, k), d)
    IN  Round(s, IF qr[2] = << >> THEN qr[1] ELSE Sticky(qr[1]), e - k)

(* The float a decimal literal denotes: the nearest to (-1)^s * n * 10^e.    *)
Dec(s, n, e) ==
    IF n = << >> THEN Zero(s)
    ELSE IF e >= 0 THEN Round(s, BigMul(n, BigPow10(e)), 0)
    ELSE RoundRatio(s, n, BigPow10(-e), 0)

(* The literal n e<e>, as 5e-9 or 293; n < 0 is the literal negated.         *)
Lit(n, e) == Dec(IF n < 0 THEN 1 ELSE 0, Big(Abs(n)), e)

(* The literal <n1><n2>e<e>, n2 written with nine digits.                    *)
LitLong(n1, n2, e) == Dec(0, BigAdd(BigMul(Big(n1), BigPow10(9)), Big(n2)), e)

Neg(a) == IF IsNaN(a) THEN a ELSE [a EXCEPT !.s = 1 - @]

Sign(a) == IF IsZero(a) THEN 0 ELSE IF a.s = 1 THEN -1 ELSE 1

(* -1, 0, 1 as |a| is less than, equal to, greater than |b|; a, b not nan.    *)
MagCmp(a, b) ==
    IF IsInf(a) \/ IsInf(b)
    THEN (IF IsInf(a) /\ IsInf(b) THEN 0 ELSE IF IsInf(a) THEN 1 ELSE -1)
    ELSE IF IsZero(a) \/ IsZero(b)
    THEN (IF IsZero(a) /\ IsZero(b) THEN 0 ELSE IF IsZero(a) THEN -1 ELSE 1)
    ELSE IF a.e # b.e THEN (IF a.e < b.e THEN -1 ELSE 1)
    ELSE BigCmp(a.m, b.m)

Cmp(a, b) ==
    IF Sign(a) # Sign(b) THEN (IF Sign(a) < Sign(b) THEN -1 ELSE 1)
    ELSE Sign(a) * MagCmp(a, b)

(* Python's a < b, a <= b, a == b.                                           *)
Less(a, b) == ~IsNaN(a) /\ ~IsNaN(b) /\ Cmp(a, b) < 0

Leq(a, b) == ~IsNaN(a) /\ ~IsNaN(b) /\ Cmp(a, b) <= 0

Eq(a, b) == ~IsNaN(a) /\ ~IsNaN(b) /\ Cmp(a, b) = 0

(* Python's a * b on floats.                                                 *)
Mul(a, b) ==
    IF IsNaN(a) \/ IsNaN(b) THEN NaN
    ELSE IF IsInf(a) \/ IsInf(b)
    THEN (IF IsZero(a) \/ IsZero(b) THEN NaN ELSE Inf((a.s + b.s) % 2))
    ELSE Round((a.s + b.s) % 2, BigMul(a.m, b.m), a.e + b.e)

(* a / b for b # 0.                                                          *)
Quot(a, b) ==
    IF IsNaN(a) \/ IsNaN(b) THEN NaN
    ELSE IF IsInf(a) THEN (IF IsInf(b) THEN NaN ELSE Inf((a.s + b.s) % 2))
    ELSE IF IsInf(b) \/ IsZero(a) THEN Zero((a.s + b.s) % 2)
    ELSE RoundRatio((a.s + b.s) % 2, a.m, b.m, a.e - b.e)

(* x + y for finite x, y # 0 whose exponents are at most Far apart.         *)
AddNear(a, b) ==
    LET e == IF a.e < b.e THEN a.e ELSE b.e
        x == Shl(a.m, a.e - e)
        y == Shl(b.m, b.e - e)
    IN  IF a.s = b.s THEN Round(a.s, BigAdd(x, y), e)
        ELSE IF BigCmp(x, y) = 0 THEN Zero(0)
        ELSE IF BigCmp(x, y) > 0 THEN Round(a.s, BigSub(x, y), e)
        ELSE Round(b.s, BigSub(y, x), e)

Far == 2 * Precision + 14

(* b, or when it is too small to change more than the rounding of a + b, a   *)
(* number as small with one bit.                                             *)
Near(a, b) ==
    IF a.e - b.e > Far THEN [s |-> b.s, m |-> <<1>>, e |-> a.e - Precision - 6]
    ELSE b

(* Python's a + b on floats.                                                 *)
Add(a, b) ==
    IF IsNaN(a) \/ IsNaN(b) THEN NaN
    ELSE IF IsInf(a) \/ IsInf(b)
    THEN (IF IsInf(a) /\ IsInf(b) /\ a.s # b.s THEN NaN ELSE IF IsInf(a) THEN a ELSE b)
    ELSE IF IsZero(a) /\ IsZero(b) THEN Zero(a.s * b.s)
    ELSE IF IsZero(a) THEN b
    ELSE IF IsZero(b) THEN a
    ELSE AddNear(Near(b, a), Near(a, b))
-----------------------------------------------------------------------------
(* Python values.  A name of the namespace is unbound or bound to a float;   *)
(* a float division raises ZeroDivisionError on a zero divisor, x**2 raises  *)
(* OverflowError when the square of a finite x is out of range, np.sqrt      *)
(* gives nan (with a RuntimeWarning, not an exception) below zero.           *)

Undef == [unbound |-> TRUE]

NoOut == [nothing |-> TRUE]

Raise(kind) == [raise |-> kind]

IsRaise(v) == "raise" \in DOMAIN v

(* A division that refuses every denominator that is not positive.          *)
PyDivGuarded(a, b) ==
    IF Sign(b) <= 0 THEN Raise("ZeroDivisionError") ELSE Quot(a, b)

(* a / b of two floats.                                                      *)
PyDiv(a, b) == IF IsZero(b) THEN Raise("ZeroDivisionError") ELSE Quot(a, b)

(* a**2: the square correctly rounded (the C library's pow may be one unit   *)
(* in the last place off it for some operands).                              *)
Square(a) ==
    IF IsNum(a) /\ IsInf(Mul(a, a)) THEN Raise("OverflowError") ELSE Mul(a, a)

(* The float nearest to the root of a finite float x > 0.                    *)
Root(x) ==
    LET k0 == Max(0, 2 * (Precision + 3) - BitLen(x.m))
        k == IF (x.e - k0) % 2 = 0 THEN k0 ELSE k0 + 1
        n == Shl(x.m, k)
        r == BigSqrt(n)
    IN  Round(0, IF BigMul(r, r) = n THEN r ELSE Sticky(r), (x.e - k) \div 2)

(* A root that takes the magnitude of a negative operand.                    *)
SqrtOfAbs(x) ==
    IF IsNaN(x) THEN NaN
    ELSE IF IsZero(x) \/ IsInf(x) THEN [x EXCEPT !.s = 0]
    ELSE Root(x)

(* np.sqrt(x): nan for x < 0 (numpy warns, it does not raise), the zeros and *)
(* inf are their own roots.                                                  *)
Sqrt(x) ==
    IF IsNaN(x) THEN NaN
    ELSE IF IsZero(x) THEN x
    ELSE IF x.s = 1 THEN NaN
    ELSE IF IsInf(x) THEN x
    ELSE Root(x)

DigitChar == <<"0", "1", "2", "3", "4", "5", "6", "7", "8", "9">>

(* The decimal digits of n, the least significant first.                     *)
RECURSIVE DigitSeq(_)
DigitSeq(n) ==
    IF n = << >> THEN << >>
    ELSE <<DivSmall(n, 10)[2]>> \o DigitSeq(DivSmall(n, 10)[1])

(* The digits ds[i], ds[i-1], .., ds[j] as text.                             *)
RECURSIVE Numeral(_, _, _)
Numeral(ds, i, j) ==
    IF i < j THEN "" ELSE DigitChar[ds[i] + 1] \o Numeral(ds, i - 1, j)

(* The integer nearest to n * 2^e, ties to even.                             *)
RoundInt(n, e) ==
    IF e >= 0 THEN Shl(n, e)
    ELSE IF Bit(n, -e - 1) = 1 /\ (~LowZero(n, -e - 1) \/ Bit(n, -e) = 1)
    THEN BigAdd(Shr(n, -e), <<1>>)
    ELSE Shr(n, -e)

(* '%.<k>f' % x: the text of x with k digits after the point, k > 0.         *)
Fmt(x, k) ==
    IF IsNaN(x) THEN "nan"
    ELSE IF IsInf(x) THEN (IF x.s = 1 THEN "-inf" ELSE "inf")
    ELSE LET ds0 == DigitSeq(RoundInt(BigMul(x.m, BigPow10(k)), x.e))
             ds == ds0 \o [i \in 1..(k + 1 - Len(ds0)) |-> 0]
         IN  (IF x.s = 1 THEN "-" ELSE "")
                 \o Numeral(ds, Len(ds), k + 1) \o "." \o Numeral(ds, k, 1)
-----------------------------------------------------------------------------
(* The formulas of the code cells, in Python's order of evaluation.          *)

One == Lit(1, 0)

Two == Lit(2, 0)

Three == Lit(3, 0)

(* np.pi, 3.141592653589793                                                  *)
Pi == LitLong(3141592, 653589793, -15)

(* In[2]:  D = kB*T/(3*np.pi*eta*d)                                          *)
StokesEinstein(kB, T, eta, d) ==
    PyDiv(Mul(kB, T), Mul(Mul(Mul(Three, Pi), eta), d))

(* Rescale with the length unit not squared.                                 *)
RescaleUnsquared(D, len, t) == PyDiv(Mul(D, len), t)

(* In[3]:  Du = D*(1e9)**2/(1e6)      In[5]:  Du = D*(1e6)**2/(1e3)          *)
Rescale(D, len, t) == PyDiv(Mul(D, Square(len)), t)

(* SpotSize with the parentheses of the divisor lost: S_spot**2/(2*N)*tau.   *)
SpotSizeTimesTau(S_spot, N, tau_spot) ==
    IF IsRaise(Square(S_spot)) THEN Square(S_spot)
    ELSE IF IsZero(Mul(Two, N)) THEN Raise("ZeroDivisionError")
    ELSE Mul(Quot(Square(S_spot), Mul(Two, N)), tau_spot)

(* In[4]:  D = S_spot**2 / (2*N*tau_spot)                                    *)
SpotSize(S_spot, N, tau_spot) ==
    IF IsRaise(Square(S_spot)) THEN Square(S_spot)
    ELSE PyDiv(Square(S_spot), Mul(Mul(Two, N), tau_spot))

(* In[6]:  sigma = np.sqrt(2*D*3*time)                                       *)
Displacement(D, time) == Sqrt(Mul(Mul(Mul(Two, D), Three), time))

(* DiffusionTime without the dimensionality: space**2/(2*D).                 *)
DiffusionTimeNoDim(space, D) ==
    IF IsRaise(Square(space)) THEN Square(space)
    ELSE PyDiv(Mul(One, Square(space)), Mul(Two, D))

(* In[7]:  time = 1.*space**2/(2*D*3)                                        *)
DiffusionTime(space, D) ==
    IF IsRaise(Square(space)) THEN Square(space)
    ELSE PyDiv(Mul(One, Square(space)), Mul(Mul(Two, D), Three))

(* In[6]:  print 'Displacement (std_dev): %.2f um' % (sigma*1e6)             *)
PrintDisplacement(sigma) ==
    [stdout |-> "Displacement (std_dev): " \o Fmt(Mul(sigma, Lit(1, 6)), 2) \o " um\n"]

(* In[7]:  print 'Time for %.1f um displacement: %.1f s' % (space*1e6, time) *)
PrintTime(space, time) ==
    [stdout |-> "Time for " \o Fmt(Mul(space, Lit(1, 6)), 1)
                  \o " um displacement: " \o Fmt(time, 1) \o " s\n"]

-----------------------------------------------------------------------------
(* The literals of the notebook as saved.                                    *)

d0 == Lit(5, -9)
eta0 == Lit(1, -3)
kB0 == Lit(138, -25)
T0 == Lit(293, 0)
S_spot0 == Lit(8, -7)
N0 == Lit(3, 0)
tau_spot0 == Lit(1, -3)
time0 == Lit(10, 0)
space0 == Lit(1, -4)

(* The literals a cell is run with: the saved ones and edits of them.  In[4] *)
(* is also given tau_spot = 0.003 and the float next above it,               *)
(* 0.0030000000000000005.                                                    *)

MaxRuns == 3
MaxPairRuns == 2

Kernels == {1, 2}

stokesLits ==
    {<<d0, eta0, kB0, T0>>, <<Lit(0, 0), eta0, kB0, T0>>,
     <<d0, Lit(-1, -3), kB0, T0>>, <<d0, eta0, Lit(0, 0), T0>>,
     <<d0, eta0, kB0, Lit(300, 0)>>}
spotLits ==
    {<<S_spot0, N0, tau_spot0>>, <<S_spot0, N0, Lit(3, -3)>>,
     <<S_spot0, N0, LitLong(30000000, 5, -19)>>, <<S_spot0, Lit(2, 0), tau_spot0>>,
     <<S_spot0, N0, Lit(0, 0)>>, <<S_spot0, Lit(-1, 0), tau_spot0>>,
     <<Lit(0, 0), N0, tau_spot0>>}
tau_spotLits == {l[3] : l \in spotLits}
timeLits == {Lit(0, 0), time0}
spaceLits == {Lit(0, 0), space0, One}

-----------------------------------------------------------------------------
(* The kernel.  ns[k] is its namespace, prompt[k] the execution counter      *)
(* (the n of In[n]), last[k] the cell run last with the exception it raised  *)
(* and what it displayed (the float of an Out[n]) or printed (the text on    *)
(* stdout).  ordered[k] = c says that the kernel has run exactly the cells   *)
(* 1 .. c, once each, in the order and with the literals of the saved        *)
(* notebook; it is 0 after any other run.  The kernel starts with In[1],     *)
(* import numpy as np, run.                                                  *)

Names == {"d", "eta", "kB", "T", "D", "Du", "S_spot", "N", "tau_spot",
          "time", "sigma", "space"}

Init ==
    /\ ns = [k \in Kernels |-> [x \in Names |-> Undef]]
    /\ prompt = [k \in Kernels |-> 1]
    /\ last = [k \in Kernels |-> [cell |-> 1, err |-> "none", out |-> NoOut]]
    /\ ordered = [k \in Kernels |-> 1]

(* A cell may be run while fewer than max cells have been run, and at any    *)
(* time as the next cell of a run of the saved notebook in its order.        *)
MayRun(k, c, saved, max) ==
    prompt[k] < 1 + max \/ (ordered[k] = c - 1 /\ saved)

(* The code of the cells: the namespace a run leaves, the exception it       *)
(* raises and what it displays.  A name is bound when its assignment has     *)
(* been executed: the literals before the formula, the result after it.      *)

Done(names, out) == [ns |-> names, err |-> "none", out |-> out]

Failed(names, kind) == [ns |-> names, err |-> kind, out |-> NoOut]

In1(names) == Done(names, NoOut)

In2(names, d, eta, kB, T) ==
    LET n1 == [names EXCEPT !.d = d, !.eta = eta, !.kB = kB, !.T = T]
        v == StokesEinstein(n1.kB, n1.T, n1.eta, n1.d)
    IN  IF IsRaise(v) THEN Failed(n1, v.raise)
        ELSE Done([n1 EXCEPT !.D = v], v)

In3(names) ==
    LET v == Rescale(names.D, Lit(1, 9), Lit(1, 6))
    IN  IF names.D = Undef THEN Failed(names, "NameError")
        ELSE Done([names EXCEPT !.Du = v], v)

(* In4 made to unbind D when its division fails.                             *)
In4UnbindsD(names, S_spot, N, tau_spot) ==
    LET n1 == [names EXCEPT !.S_spot = S_spot, !.N = N, !.tau_spot = tau_spot]
        v == SpotSize(n1.S_spot, n1.N, n1.tau_spot)
    IN  IF IsRaise(v) THEN Failed([n1 EXCEPT !.D = Undef], v.raise)
        ELSE Done([n1 EXCEPT !.D = v], v)

(* In4 made to display its value without binding D to it.                    *)
In4KeepsD(names, S_spot, N, tau_spot) ==
    LET n1 == [names EXCEPT !.S_spot = S_spot, !.N = N, !.tau_spot = tau_spot]
        v == SpotSize(n1.S_spot, n1.N, n1.tau_spot)
    IN  IF IsRaise(v) THEN Failed(n1, v.raise) ELSE Done(n1, v)

In4(names, S_spot, N, tau_spot) ==
    LET n1 == [names EXCEPT !.S_spot = S_spot, !.N = N, !.tau_spot = tau_spot]
        v == SpotSize(n1.S_spot, n1.N, n1.tau_spot)
    IN  IF IsRaise(v) THEN Failed(n1, v.raise)
        ELSE Done([n1 EXCEPT !.D = v], v)

In5(names) ==
    LET v == Rescale(names.D, Lit(1, 6), Lit(1, 3))
    IN  IF names.D = Undef THEN Failed(names, "NameError")
        ELSE Done([names EXCEPT !.Du = v], v)

(* In6 made to read the dimensionality N from the namespace.                 *)
In6ReadsN(names, time) ==
    LET n1 == [names EXCEPT !.time = time]
        v == Sqrt(Mul(Mul(Mul(Two, n1.D), n1.N), n1.time))
    IN  IF n1.D = Undef \/ n1.N = Undef THEN Failed(n1, "NameError")
        ELSE Done([n1 EXCEPT !.sigma = v], PrintDisplacement(v))

In6(names, time) ==
    LET n1 == [names EXCEPT !.time = time]
        v == Displacement(n1.D, n1.time)
    IN  IF n1.D = Undef THEN Failed(n1, "NameError")
        ELSE Done([n1 EXCEPT !.sigma = v], PrintDisplacement(v))

(* space**2 is evaluated, and may raise, before D is read.                   *)
In7(names, space) ==
    LET n1 == [names EXCEPT !.space = space]
        v == DiffusionTime(n1.space, n1.D)
    IN  IF IsRaise(Square(n1.space)) THEN Failed(n1, "OverflowError")
        ELSE IF n1.D = Undef THEN Failed(n1, "NameError")
        ELSE IF IsRaise(v) THEN Failed(n1, v.raise)
        ELSE Done([n1 EXCEPT !.time = v], PrintTime(n1.space, v))

Finish(k, c, saved, r) ==
    /\ ns' = [ns EXCEPT ![k] = r.ns]
    /\ prompt' = [prompt EXCEPT ![k] = @ + 1]
    /\ last' = [last EXCEPT ![k] = [cell |-> c, err |-> r.err, out |-> r.out]]
    /\ ordered' = [ordered EXCEPT
                     ![k] = IF @ = c - 1 /\ saved /\ r.err = "none" THEN c ELSE 0]

Cell1(k, max) == MayRun(k, 1, FALSE, max) /\ Finish(k, 1, FALSE, In1(ns[k]))

Cell2(k, d, eta, kB, T, max) ==
    LET saved == d = d0 /\ eta = eta0 /\ kB = kB0 /\ T = T0
    IN  MayRun(k, 2, saved, max) /\ Finish(k, 2, saved, In2(ns[k], d, eta, kB, T))

Cell3(k, max) == MayRun(k, 3, TRUE, max) /\ Finish(k, 3, TRUE, In3(ns[k]))

Cell4(k, S_spot, N, tau_spot, max) ==
    LET saved == S_spot = S_spot0 /\ N = N0 /\ tau_spot = tau_spot0
    IN  MayRun(k, 4, saved, max)
        /\ Finish(k, 4, saved, In4(ns[k], S_spot, N, tau_spot))

Cell5(k, max) == MayRun(k, 5, TRUE, max) /\ Finish(k, 5, TRUE, In5(ns[k]))

Cell6(k, time, max) ==
    MayRun(k, 6, time = time0, max) /\ Finish(k, 6, time = time0, In6(ns[k], time))

Cell7(k, space, max) ==
    MayRun(k, 7, space = space0, max)
    /\ Finish(k, 7, space = space0, In7(ns[k], space))

(* One notebook: kernel 1 runs cells, with any of the literals; In[6] may    *)
(* also be given the time that In[7] has just computed.                      *)
Next ==
    \/ Cell1(1, MaxRuns)
    \/ \E l \in stokesLits : Cell2(1, l[1], l[2], l[3], l[4], MaxRuns)
    \/ Cell3(1, MaxRuns)
    \/ \E l \in spotLits : Cell4(1, l[1], l[2], l[3], MaxRuns)
    \/ Cell5(1, MaxRuns)
    \/ \E time \in timeLits \cup {t \in {ns[1].time} : IsFloat(t)} :
          Cell6(1, time, MaxRuns)
    \/ \E space \in spaceLits : Cell7(1, space, MaxRuns)

Spec == Init /\ [][Next]_vars

(* Two notebooks side by side, each with its own kernel, to compare what the *)
(* same cell yields after different histories: in kernel 1 an edited         *)
(* notebook, its cells run in any order; in kernel 2 the saved notebook, run *)
(* in its order.                                                             *)

pairSpotLits ==
    {<<S_spot0, N0, tau_spot0>>, <<S_spot0, Lit(2, 0), Lit(15, -4)>>,
     <<S_spot0, Lit(2, 0), Lit(0, 0)>>}

NextPair ==
    \/ Cell1(1, MaxPairRuns)
    \/ Cell2(1, d0, eta0, kB0, T0, MaxPairRuns)
    \/ Cell3(1, MaxPairRuns)
    \/ \E l \in pairSpotLits : Cell4(1, l[1], l[2], l[3], MaxPairRuns)
    \/ Cell5(1, MaxPairRuns)
    \/ \E time \in timeLits : Cell6(1, time, MaxPairRuns)
    \/ Cell7(1, space0, MaxPairRuns)
    \/ Cell2(2, d0, eta0, kB0, T0, 0)
    \/ Cell3(2, 0)
    \/ Cell4(2, S_spot0, N0, tau_spot0, 0)
    \/ Cell5(2, 0)
    \/ Cell6(2, time0, 0)
    \/ Cell7(2, space0, 0)

SpecPair == Init /\ [][NextPair]_vars

-----------------------------------------------------------------------------
(* What is checked.  nb is the namespace of the notebook under Spec, run     *)
(* the cell it ran last.                                                     *)

nb == ns[1]

run == last[1]

Ran(c) == run.cell = c /\ run.err = "none"

(* |a - b| * 2^k <= |b|: a is b with a relative error of at most 2^-k.       *)
Within(a, b, k) ==
    /\ IsNum(a) /\ IsNum(b)
    /\ IsZero(a) \/ IsZero(b) \/ a.s = b.s
    /\ LET e == IF a.e < b.e THEN a.e ELSE b.e
           x == Shl(a.m, a.e - e)
           y == Shl(b.m, b.e - e)
       IN  IF BigCmp(x, y) < 0 THEN BigCmp(Shl(BigSub(y, x), k), y) <= 0
           ELSE BigCmp(Shl(BigSub(x, y), k), y) <= 0

(* (b - a) * 2^k >= a > 0: b is above a by a relative 2^-k at least.         *)
Apart(a, b, k) ==
    /\ Less(Zero(0), a) /\ Less(a, b) /\ IsNum(b)
    /\ LET e == IF a.e < b.e THEN a.e ELSE b.e
           x == Shl(a.m, a.e - e)
           y == Shl(b.m, b.e - e)
       IN  BigCmp(Shl(BigSub(y, x), k), x) >= 0

(* The names a cell binds to its literals before it evaluates its formula.   *)
Assigned(c) ==
    CASE c = 2 -> {"d", "eta", "kB", "T"}
      [] c = 4 -> {"S_spot", "N", "tau_spot"}
      [] c = 6 -> {"time"}
      [] c = 7 -> {"space"}
      [] OTHER -> {}

(* The denominators of the three divisions, from the namespace.              *)
DenStokes == Mul(Mul(Mul(Three, Pi), nb.eta), nb.d)

DenSpot == Mul(Mul(Two, nb.N), nb.tau_spot)

DenTime == Mul(Mul(Two, nb.D), Three)

Divides(c) == (c = 2 \/ c = 4 \/ c = 7) /\ run.cell = c /\ (c = 7 => IsFloat(nb.D))

Den(c) == IF c = 2 THEN DenStokes ELSE IF c = 4 THEN DenSpot ELSE DenTime

Numerator(c) ==
    IF c = 2 THEN Mul(nb.kB, nb.T)
    ELSE IF c = 4 THEN Square(nb.S_spot)
    ELSE Mul(One, Square(nb.space))

Quotient(c) == IF c = 7 THEN nb.time ELSE nb.D

(* C1, as claimed: each of the three divisions (In[2], In[4], In[7]) fails    *)
(* whenever its denominator is zero or negative, and succeeds whenever it is *)
(* positive.                                                                 *)
C1_FailsOnNonPositiveDenominator ==
    \A c \in {2, 4, 7} :
        Divides(c) => (run.err # "none" <=> Sign(Den(c)) <= 0)

(* C1, amended: a division fails, with ZeroDivisionError and without a       *)
(* value, exactly when its denominator is zero; on a negative denominator it *)
(* succeeds and yields a number of the sign opposite to its numerator's.     *)
C1_FailsOnZeroDenominatorOnly ==
    \A c \in {2, 4, 7} :
        Divides(c) =>
            /\ run.err = "ZeroDivisionError" <=> Sign(Den(c)) = 0
            /\ run.err = "none" <=> Sign(Den(c)) # 0
            /\ run.err # "none" => run.out = NoOut
            /\ run.err = "none" =>
                  /\ IsNum(Quotient(c))
                  /\ Quotient(c).s = (Numerator(c).s + Den(c).s) % 2

C1_NegativeDenominatorYieldsNumber ==
    /\ Ran(4)
    /\ Sign(DenSpot) < 0
    /\ Sign(nb.D) < 0
    /\ run.out = nb.D

ListedNames == {"S_spot", "N", "tau_spot", "D", "Du", "time", "sigma", "space"}

FailedStep == prompt'[1] # prompt[1] /\ last'[1].err # "none"

(* C2, as claimed: a failed evaluation leaves S_spot, N, tau_spot, D, Du,    *)
(* time, sigma and space as they were.                                       *)
C2_FailureChangesNothing ==
    [][FailedStep => \A x \in ListedNames : ns'[1][x] = ns[1][x]]_vars

Obs(r) == <<r.err, r.out>>

(* What every cell would yield if it were run next on the namespace.         *)
Later(names) ==
    << Obs(In2(names, d0, eta0, kB0, T0)),
       Obs(In3(names)),
       Obs(In4(names, S_spot0, N0, tau_spot0)),
       Obs(In5(names)),
       [t \in timeLits |-> Obs(In6(names, t))],
       [s \in spaceLits |-> Obs(In7(names, s))] >>

(* C2, amended: a failed evaluation changes no name but the ones the cell    *)
(* binds to its literals before the failing formula (D, Du, sigma and the    *)
(* cell's result keep their values), and every later evaluation yields what  *)
(* it would have yielded without the failed one.                             *)
C2_FailureKeepsAllButLiterals ==
    [][FailedStep =>
          /\ \A x \in Names \ Assigned(last'[1].cell) : ns'[1][x] = ns[1][x]
          /\ Later(ns'[1]) = Later(ns[1])]_vars

C2_FailedSpotSizeAfterD ==
    /\ run.cell = 4
    /\ run.err = "ZeroDivisionError"
    /\ IsNum(nb.D)
    /\ IsZero(nb.tau_spot)

(* Under SpecPair: both notebooks ran the same cell last, with the same      *)
(* literals.                                                                 *)
SameRun ==
    /\ last[1].cell = last[2].cell
    /\ prompt[1] > 1 /\ prompt[2] > 1
    /\ \A x \in Assigned(last[1].cell) : ns[1][x] = ns[2][x]

SameYield == last[1].err = last[2].err /\ last[1].out = last[2].out

(* C3, as claimed: after any two histories that end with the same cell, run  *)
(* with the same literals, the cell yields the same.                         *)
C3_YieldFromLiteralsAlone == SameRun => SameYield

(* C3, amended: In[2] and In[4] yield the same after any two histories; the  *)
(* other cells read D from the namespace and yield the same whenever D is    *)
(* the same in both.                                                         *)
C3_YieldFromLiteralsAndD ==
    SameRun /\ (last[1].cell \in {1, 2, 4} \/ ns[1].D = ns[2].D) => SameYield

C3_SameDDifferentHistory ==
    /\ SameRun
    /\ last[1].cell = 6
    /\ last[1].err = "none"
    /\ IsNum(ns[1].D) /\ ns[1].D = ns[2].D
    /\ IsNum(ns[1].N) /\ IsNum(ns[2].N) /\ ns[1].N # ns[2].N
    /\ Sign(ns[1].time) > 0
    /\ SameYield

(* The floats that the saved notebook displays as Out[2] .. Out[5].          *)
Out2 == LitLong(8580361, 291970262, -26)

Out3 == LitLong(8580361, 291970262, -14)

Out4 == LitLong(10666666, 666666665, -26)

Out5 == LitLong(10666666, 666666665, -17)

(* C4: after the cells have run once in notebook order, D is first the       *)
(* Stokes-Einstein value 8.580361291970262e-11, then the spot-size value     *)
(* 1.0666666666666665e-10, and the examples read the latter: sigma^2 is      *)
(* 6.4e-9 and sigma 8e-5 m (to the last bits of the floats), printed as      *)
(* 80.00 um and not as the 71.75 um of the first D; time is 15.625 s (to the *)
(* last bits), printed as 15.6 s for 100.0 um.                               *)
C4_NotebookOrder ==
    /\ ordered[1] \in {2, 3} => nb.D = Out2 /\ nb.N = Undef
    /\ ordered[1] = 2 => run.out = Out2
    /\ ordered[1] = 3 => nb.Du = Out3 /\ run.out = Out3
    /\ ordered[1] >= 4 => nb.D = Out4 /\ nb.D # Out2
    /\ ordered[1] = 4 => run.out = Out4
    /\ ordered[1] = 5 => nb.Du = Out5 /\ run.out = Out5
    /\ ordered[1] = 6 =>
          /\ nb.time = Lit(10, 0)
          /\ nb.sigma = Displacement(Out4, time0)
          /\ Within(Mul(nb.sigma, nb.sigma), Lit(64, -10), 50)
          /\ Within(nb.sigma, Lit(8, -5), 50)
          /\ run.out = [stdout |-> "Displacement (std_dev): 80.00 um\n"]
          /\ PrintDisplacement(Displacement(Out2, time0))
                = [stdout |-> "Displacement (std_dev): 71.75 um\n"]
    /\ ordered[1] = 7 =>
          /\ nb.space = space0
          /\ nb.time = DiffusionTime(space0, Out4)
          /\ Within(nb.time, Lit(15625, -3), 50)
          /\ run.out = [stdout |-> "Time for 100.0 um displacement: 15.6 s\n"]

C4_NotebookRunToEnd == ordered[1] = 7 /\ prompt[1] = 7

(* In[6] has been run with the time that In[7] computes for the space and    *)
(* the D of the namespace, space >= 0 and D > 0.                             *)
RoundTrip ==
    /\ run.cell = 6
    /\ IsNum(nb.space) /\ Sign(nb.space) >= 0
    /\ IsNum(nb.D) /\ Sign(nb.D) > 0
    /\ nb.time = DiffusionTime(nb.space, nb.D)

(* C5, as claimed: the displacement recomputed from the diffusion time of a  *)
(* displacement sigma >= 0, with the same D > 0, is sigma.                   *)
C5_DisplacementOfDiffusionTime ==
    RoundTrip => run.err = "none" /\ Eq(nb.sigma, nb.space)

(* C5, amended: it is sigma up to the rounding of the floats, with a         *)
(* relative error of at most 2^-51.                                          *)
C5_DisplacementWithinRounding ==
    RoundTrip => run.err = "none" /\ Within(nb.sigma, nb.space, 51)

C5_RoundTripOffByRounding ==
    /\ RoundTrip
    /\ Sign(nb.space) > 0
    /\ IsNum(nb.sigma)
    /\ ~Eq(nb.sigma, nb.space)

Factor == IF run.cell = 3 THEN Lit(1, 12) ELSE Lit(1, 9)

RescaleAs(D) ==
    IF run.cell = 3 THEN Rescale(D, Lit(1, 9), Lit(1, 6))
    ELSE Rescale(D, Lit(1, 6), Lit(1, 3))

Scalars == {Lit(-1, 0), Lit(1, -1), Three}

Summands == {Out2, Neg(Out4)}

RescaleStep == prompt'[1] # prompt[1] /\ last'[1].cell \in {3, 5}

WritesDuOnly ==
    [][RescaleStep => \A x \in Names \ {"Du"} : ns'[1][x] = ns[1][x]]_vars

RescaledExactly ==
    (Ran(3) \/ Ran(5)) =>
        /\ Eq(nb.Du, Mul(nb.D, Factor))
        /\ Eq(Quot(nb.Du, Factor), nb.D)
        /\ \A c \in Scalars : Eq(RescaleAs(Mul(c, nb.D)), Mul(c, nb.Du))
        /\ \A D2 \in Summands :
              Eq(RescaleAs(Add(nb.D, D2)), Add(nb.Du, RescaleAs(D2)))

(* C6, as claimed: after In[3] (factor 1e12) or In[5] (factor 1e9), Du is    *)
(* D * factor and Du / factor is D; rescaling distributes over scalar        *)
(* multiples and sums of D; and a rescaling writes Du only.                  *)
C6_RescalingLinearInvertible == []RescaledExactly /\ WritesDuOnly

RescaledWithinRounding ==
    (Ran(3) \/ Ran(5)) =>
        /\ Within(nb.Du, Mul(nb.D, Factor), 51)
        /\ Within(Quot(nb.Du, Factor), nb.D, 51)
        /\ nb.D \in {Out2, Out4} => Eq(nb.Du, Mul(nb.D, Factor))
        /\ nb.D \in {Out2, Out4} => Eq(Quot(nb.Du, Factor), nb.D)
        /\ \A c \in Scalars : Within(RescaleAs(Mul(c, nb.D)), Mul(c, nb.Du), 50)
        /\ \A D2 \in Summands :
              D2.s = nb.D.s =>
                  Within(RescaleAs(Add(nb.D, D2)), Add(nb.Du, RescaleAs(D2)), 50)

(* C6, amended: Du is D * factor and Du / factor is D up to the rounding of  *)
(* the floats (relative error at most 2^-51; exactly for the two D of the    *)
(* saved notebook); rescaling distributes over scalar multiples and over     *)
(* sums of equal sign up to rounding (2^-50); and a rescaling writes Du      *)
(* only, D and every other name are unchanged.                               *)
C6_RescalingLinearWithinRounding == []RescaledWithinRounding /\ WritesDuOnly

C6_ThriceRescaledOffByRounding ==
    /\ Ran(5)
    /\ nb.D = Out2
    /\ ~Eq(RescaleAs(Mul(Three, nb.D)), Mul(Three, nb.Du))

PositiveSpot ==
    /\ run.cell = 4
    /\ Sign(nb.S_spot) > 0 /\ Sign(nb.N) > 0 /\ Sign(nb.tau_spot) > 0

(* C7, as claimed: for positive S_spot, N and tau_spot, In[4] succeeds with  *)
(* D > 0, and with the same S_spot and N any larger tau_spot gives a         *)
(* strictly smaller D, any smaller positive tau_spot a strictly larger one.  *)
C7_SpotSizePositiveDecreasing ==
    PositiveSpot =>
        /\ run.err = "none"
        /\ Sign(nb.D) > 0
        /\ \A t \in tau_spotLits :
              /\ Less(nb.tau_spot, t) => Less(SpotSize(nb.S_spot, nb.N, t), nb.D)
              /\ Sign(t) > 0 /\ Less(t, nb.tau_spot) =>
                    Less(nb.D, SpotSize(nb.S_spot, nb.N, t))

(* C7, amended: D > 0, and a larger tau_spot never gives a larger D; it      *)
(* gives a strictly smaller D when it is larger by a relative 2^-50 at       *)
(* least, and may give the same D when it is closer.                         *)
C7_SpotSizePositiveNonIncreasing ==
    PositiveSpot =>
        /\ run.err = "none"
        /\ Sign(nb.D) > 0
        /\ \A t \in tau_spotLits :
              /\ Less(nb.tau_spot, t) => Leq(SpotSize(nb.S_spot, nb.N, t), nb.D)
              /\ Apart(nb.tau_spot, t, 50) => Less(SpotSize(nb.S_spot, nb.N, t), nb.D)
              /\ Apart(t, nb.tau_spot, 50) => Less(nb.D, SpotSize(nb.S_spot, nb.N, t))

C7_NextTauSameD ==
    /\ PositiveSpot
    /\ \E t \in tau_spotLits :
          /\ Less(nb.tau_spot, t)
          /\ Eq(SpotSize(nb.S_spot, nb.N, t), nb.D)
    /\ \E t \in tau_spotLits :
          /\ Apart(t, nb.tau_spot, 50)
          /\ Less(nb.D, SpotSize(nb.S_spot, nb.N, t))

(* Under SpecPair: both notebooks have just computed a displacement from     *)
(* non-negative D, N and time.                                               *)
BothDisplaced ==
    /\ \A k \in Kernels :
          /\ last[k].cell = 6 /\ last[k].err = "none"
          /\ IsNum(ns[k].N) /\ Sign(ns[k].N) >= 0
          /\ Sign(ns[k].D) >= 0 /\ Sign(ns[k].time) >= 0
          /\ IsNum(ns[k].sigma)

(* C8, as claimed: sigma is non-decreasing in each of D, N and time, and a   *)
(* change of N alone (D * time > 0 held fixed) changes sigma: the larger N   *)
(* gives the strictly larger sigma.                                          *)
C8_SigmaMonotoneInDNTime ==
    BothDisplaced =>
        /\ Leq(ns[1].D, ns[2].D) /\ Leq(ns[1].N, ns[2].N)
             /\ Leq(ns[1].time, ns[2].time)
             => Leq(ns[1].sigma, ns[2].sigma)
        /\ Eq(ns[1].D, ns[2].D) /\ Eq(ns[1].time, ns[2].time)
             /\ Sign(Mul(ns[1].D, ns[1].time)) > 0 /\ Less(ns[1].N, ns[2].N)
             => Less(ns[1].sigma, ns[2].sigma)

Radicand == Mul(Mul(Mul(Two, nb.D), Three), nb.time)

(* C9, as claimed: In[6] fails whenever its radicand 2*D*3*time is negative, *)
(* never leaving nan, and returns a non-negative real otherwise.             *)
C9_NegativeRadicandFails ==
    run.cell = 6 /\ IsNum(nb.D) =>
        /\ Sign(Radicand) < 0 => run.err # "none" /\ nb.sigma # NaN
        /\ Sign(Radicand) >= 0 => run.err = "none" /\ IsNum(nb.sigma)

(* C9, amended: with D bound In[6] never fails; on a negative radicand       *)
(* np.sqrt returns nan, which is bound to sigma and printed; otherwise sigma *)
(* is the root of the radicand, not below zero.                              *)
C9_NegativeRadicandGivesNaN ==
    run.cell = 6 /\ IsNum(nb.D) =>
        /\ run.err = "none"
        /\ Sign(Radicand) < 0 =>
              /\ nb.sigma = NaN
              /\ run.out = [stdout |-> "Displacement (std_dev): nan um\n"]
        /\ Sign(Radicand) >= 0 =>
              /\ IsNum(nb.sigma)
              /\ Leq(Zero(0), nb.sigma)
              /\ Within(Mul(nb.sigma, nb.sigma), Radicand, 51)

C9_NaNDisplacement == Ran(6) /\ Sign(Radicand) < 0 /\ nb.sigma = NaN

(* The namespace holds the D that In[4] derived with the N it holds, N > 0.  *)
SpotDerived ==
    /\ IsNum(nb.N) /\ Sign(nb.N) > 0
    /\ Sign(nb.tau_spot) # 0
    /\ nb.D = SpotSize(nb.S_spot, nb.N, nb.tau_spot)

(* C10, as claimed: for every positive N assigned by In[4], In[6] computes   *)
(* sigma = sqrt(2*D*N*time) and In[7] computes time = space^2/(2*D*N).       *)
C10_ExamplesUseN ==
    SpotDerived =>
        /\ Ran(6) =>
              nb.sigma = Sqrt(Mul(Mul(Mul(Two, nb.D), nb.N), nb.time))
        /\ Ran(7) =>
              nb.time = Quot(Mul(One, Square(nb.space)),
                             Mul(Mul(Two, nb.D), nb.N))

=============================================================================
